---- MODULE Spec2Model ----
(***************************************************************************)
(* Decision-tree induction (fa.py: FactorialAnalysis.create_tree) and the  *)
(* tree queries of dtree.py (decide, rules, depth, num_leaves); the calls  *)
(* of entropy of id3.py: ID3.create_tree.                                  *)
(*                                                                         *)
(* Spec is one create_tree and the queries after it, SpecBuild the steps   *)
(* of one create_tree, SpecRebuild a second create_tree on the built       *)
(* object, SpecID3 one ID3.create_tree.  prev and entropy_calls are        *)
(* history variables: what the first create_tree built, and the calls of   *)
(* entropy made so far with what each was handed.                          *)
(*                                                                         *)
(* Attribute names are the numbers of the columns of the CSV header; the   *)
(* dependent attribute is the last column.  A row is the sequence of its   *)
(* column values.  Python's None is 0.  A float p/t is the pair        *)
(* <<p, t>>, compared by cross multiplication.  A dict of properties is a  *)
(* record whose fields are the keys of the dict.                           *)
(***************************************************************************)
EXTENDS Integers, Sequences, FiniteSets, TLC

MaxRows == 4

None == 0

VARIABLES data, attributes, values, attribute_order, root, nodes, stack, pc,
          valueOrder, keyOrder, res, prev, entropy_calls

vars == <<data, attributes, values, attribute_order, root, nodes, stack, pc,
          valueOrder, keyOrder, res, prev, entropy_calls>>

-----------------------------------------------------------------------------
(* The parsed CSV file *)

\* The header of the file.
all_attributes == <<1, 2, 3>>

\* attributes[dependent_index], dependent_index = -1
dependent == all_attributes[Len(all_attributes)]

\* The values in the columns of the independent attributes.
Vals == {1, 2}

\* The values in the column of the dependent attribute.
Classes == {1, 2}

Rows == {r \in [DOMAIN all_attributes -> Vals \cup Classes] :
            /\ \A a \in DOMAIN all_attributes : a # dependent => r[a] \in Vals
            /\ r[dependent] \in Classes}

RECURSIVE LexLeq(_, _)
LexLeq(r, s) ==
    IF r = <<>> THEN TRUE
    ELSE IF Head(r) # Head(s) THEN Head(r) < Head(s)
    ELSE LexLeq(Tail(r), Tail(s))

\* The files read: up to MaxRows rows.  The order of the rows of a file only
\* decides the insertion order of the Counters, whose iteration order is
\* keyOrder, so one file stands for every reordering of its rows.
Datasets == UNION {{d \in [1..n -> Rows] :
                        \A i \in 1..(n - 1) : LexLeq(d[i], d[i + 1])} : n \in 0..MaxRows}

Perms(S) == {p \in [1..Cardinality(S) -> S] : \A i, j \in DOMAIN p : p[i] = p[j] => i = j}

Range(s) == {s[i] : i \in DOMAIN s}

RECURSIVE SumSeq(_)
SumSeq(s) == IF s = <<>> THEN 0 ELSE Head(s) + SumSeq(Tail(s))

get_distinct_values(d) ==
    [attr \in Range(all_attributes) |-> {d[i][attr] : i \in DOMAIN d}]

filter_subset(subset, attr, value) ==
    SelectSeq(subset, LAMBDA r : r[attr] = value)

value_counts(subset, attr, value, base) ==
    LET hit == {i \in DOMAIN subset : subset[i][attr] = value \/ base}
    IN  [c \in {subset[i][dependent] : i \in hit} |->
            Cardinality({i \in hit : subset[i][dependent] = c})]

attr_counts(subset, attr) ==
    [v \in {subset[i][attr] : i \in DOMAIN subset} |->
        Cardinality({i \in DOMAIN subset : subset[i][attr] = v})]

\* The keys of a Counter in the order a loop over the dict visits them.
Keys(counts) == SelectSeq(keyOrder, LAMBDA k : k \in DOMAIN counts)

FloatLess(f, g) == f[1] * g[2] < g[1] * f[2]

\* The float of an integer count.
Float(n) == <<n, 1>>

\* Python's max(seq, key=...) over the keys of the elements of seq: the index
\* of the first element whose key no other key exceeds.
LastMax(keys) ==
    CHOOSE i \in DOMAIN keys :
        /\ \A j \in DOMAIN keys : ~FloatLess(keys[i], keys[j])
        /\ \A j \in (i + 1)..Len(keys) : FloatLess(keys[j], keys[i])

FirstMax(keys) ==
    CHOOSE i \in DOMAIN keys :
        /\ \A j \in DOMAIN keys : ~FloatLess(keys[i], keys[j])
        /\ \A j \in 1..(i - 1) : FloatLess(keys[j], keys[i])

-----------------------------------------------------------------------------
(* fa.py *)

remaining_distinct_values(subset, attr) ==
    Cardinality({subset[i][attr] : i \in DOMAIN subset})

\* sum(counts.values())
RECURSIVE SumValues(_)
SumValues(counts) ==
    IF DOMAIN counts = {} THEN 0
    ELSE LET k == CHOOSE k \in DOMAIN counts : TRUE
         IN  counts[k] + SumValues([l \in DOMAIN counts \ {k} |-> counts[l]])

\* The float perfect / total of the rows of the subset.
information_gain(subset, attr) ==
    LET sizes == [i \in DOMAIN valueOrder[attr] |->
                    SumValues(value_counts(subset, attr, valueOrder[attr][i], FALSE))]
        perfects == [i \in DOMAIN valueOrder[attr] |->
                    IF Cardinality(DOMAIN value_counts(subset, attr, valueOrder[attr][i], FALSE)) = 1
                    THEN sizes[i] ELSE 0]
    IN  <<SumSeq(perfects), SumSeq(sizes)>>

IsPureLoose(counts) == Cardinality(DOMAIN counts) >= 1

\* len(counts) == 1
IsPure(counts) == Cardinality(DOMAIN counts) = 1

LeastCommon(counts) ==
    Keys(counts)[FirstMax([i \in DOMAIN Keys(counts) |-> Float(0 - counts[Keys(counts)[i]])])]

\* max(counts, key=lambda k: counts[k])
MostCommon(counts) ==
    Keys(counts)[FirstMax([i \in DOMAIN Keys(counts) |-> Float(counts[Keys(counts)[i]])])]

\* properties={}
DefaultProperties == [k \in {} |-> TRUE]

NotMarked == [k \in {} |-> TRUE]

\* properties={'estimated': True}
EstimatedProperties == [estimated |-> TRUE]

DTreeNode(label, parent_value, properties, leaf) ==
    [label |-> label, children |-> <<>>, parent_value |-> parent_value,
     properties |-> properties, leaf |-> leaf]

\* The choice of the split attribute (fa.py lines 70-88): the pair of the
\* attribute and the properties of the new node.  An attribute name, a
\* column of the header, is never the number 0.
SplitChoice(subset, remaining) ==
    LET igains == [i \in DOMAIN remaining |->
                    <<remaining[i], information_gain(subset, remaining[i])>>]
        max_attr == igains[FirstMax([i \in DOMAIN igains |-> igains[i][2]])]
        distinct_values == [i \in DOMAIN remaining |->
                    <<remaining[i], remaining_distinct_values(subset, remaining[i])>>]
        max_groups == distinct_values[FirstMax([i \in DOMAIN distinct_values |->
                                                    Float(distinct_values[i][2])])]
    IN  IF max_attr[1] = 0
        THEN <<max_groups[1], [max_groups |-> max_groups[2]]>>
        ELSE <<max_attr[1], [information_gain |-> max_attr[2]]>>

\* The body of create_tree up to the creation of the node (lines 30-95).
\* parent = None is the root call, whose parent_subset is None as well.
NewNode(parent_subset, parent, parent_value, remaining) ==
    LET filtered == IF parent = None THEN data
                    ELSE filter_subset(parent_subset, nodes[parent].label, parent_value)
        counts0 == attr_counts(filtered, dependent)
        use_parent == DOMAIN counts0 = {}
        raises == use_parent /\ parent = None
        subset == IF use_parent /\ ~raises THEN parent_subset ELSE filtered
        counts == attr_counts(subset, dependent)
        node == IF raises THEN DTreeNode(None, None, DefaultProperties, TRUE)
                ELSE IF IsPure(counts)
                THEN DTreeNode(Keys(counts)[1], parent_value, DefaultProperties, TRUE)
                ELSE IF remaining = <<>> \/ use_parent
                THEN DTreeNode(MostCommon(counts), parent_value, EstimatedProperties, TRUE)
                ELSE LET choice == SplitChoice(subset, remaining)
                     IN DTreeNode(choice[1], parent_value, choice[2], FALSE)
    IN  [raises |-> raises, node |-> node, subset |-> subset]

SplitValuesPresent(subset, label) ==
    SelectSeq(valueOrder[label], LAMBDA v : \E i \in DOMAIN subset : subset[i][label] = v)

\* The values the loop of lines 108-114 visits, in the order it visits them.
SplitValues(subset, label) == valueOrder[label]

KeepRemaining(remaining, label) == remaining

\* new_remaining = remaining[:]; new_remaining.remove(node.label)
NewRemaining(remaining, label) == SelectSeq(remaining, LAMBDA a : a # label)

RemoveInPlace(remaining, label) == SelectSeq(remaining, LAMBDA a : a # label)

\* The list the caller handed in as remaining (self.attributes in the
\* outermost call, the caller's new_remaining below it) once the call has
\* made new_remaining: the removal is from the copy, the list is as it was.
RemainingAfter(remaining, label) == remaining

\* The frame of a call of create_tree that is in its loop over the values.
Frame(id, node, subset, remaining) ==
    [node |-> id, subset |-> subset,
     remaining |-> NewRemaining(remaining, node.label),
     pending |-> SplitValues(subset, node.label)]

Swallowed(new) == FALSE

\* No handler catches the TypeError of attr_counts(None, ...): it leaves
\* create_tree at line 48.
Propagates(new) == new.raises

-----------------------------------------------------------------------------
(* dtree.py: DTreeNode *)

\* ValueError("Invalid property found: ...")
InvalidProperty == "Invalid property found"

\* ValueError("supplied attributes do not match data")
NoMatch == "supplied attributes do not match data"

Raised(error, message, visited) ==
    [status |-> error, message |-> message, value |-> None, visited |-> visited]

Returned(value, visited) ==
    [status |-> "returned", message |-> "", value |-> value, visited |-> visited]

MatchingChildByLabel(n, val) ==
    LET hits == SelectSeq(nodes[n].children, LAMBDA c : val = nodes[c].label)
    IN  IF hits = <<>> THEN None ELSE hits[1]

MatchingChildOrFirst(n, val) ==
    LET hits == SelectSeq(nodes[n].children, LAMBDA c : val = nodes[c].parent_value)
    IN  IF hits = <<>> THEN nodes[n].children[1] ELSE hits[1]

\* The child the loop of _decide returns from: the first one whose
\* parent_value is val, or None when the loop ends without one.
MatchingChild(n, val) ==
    LET hits == SelectSeq(nodes[n].children, LAMBDA c : val = nodes[c].parent_value)
    IN  IF hits = <<>> THEN None ELSE hits[1]

\* visited counts the nodes _decide was called on.  attrs_dict[self.label]
\* is a KeyError when the dict has no such key.
RECURSIVE _decide(_, _)
_decide(n, attrs_dict) ==
    IF nodes[n].leaf THEN Returned(nodes[n].label, 1)
    ELSE IF nodes[n].label \notin DOMAIN attrs_dict
    THEN Raised("KeyError", "", 1)
    ELSE LET node == MatchingChild(n, attrs_dict[nodes[n].label])
         IN  IF node = None THEN Raised("ValueError", InvalidProperty, 1)
             ELSE [_decide(node, attrs_dict) EXCEPT !.visited = @ + 1]

\* DTreeNode has a property _num_leaves and no attribute num_leaves.
DTreeNodeHas_num_leaves == FALSE

_num_leaves(n) ==
    IF nodes[n].leaf THEN Returned(1, 0)
    ELSE IF nodes[n].children = <<>> THEN Returned(0, 0)
    ELSE IF DTreeNodeHas_num_leaves THEN Returned(0, 0)
    ELSE Raised("AttributeError", "num_leaves", 0)

RECURSIVE DepthCountingLeaf(_, _)
DepthCountingLeaf(n, init) ==
    IF nodes[n].leaf THEN init + 1
    ELSE LET below == {DepthCountingLeaf(c, init + 1) : c \in Range(nodes[n].children)}
         IN  CHOOSE d \in below : \A e \in below : e <= d

RECURSIVE _depth(_, _)
_depth(n, init) ==
    IF nodes[n].leaf THEN init
    ELSE LET below == {_depth(c, init + 1) : c \in Range(nodes[n].children)}
         IN  CHOOSE d \in below : \A e \in below : e <= d

RECURSIVE Flatten(_)
Flatten(ss) == IF ss = <<>> THEN <<>> ELSE Head(ss) \o Flatten(Tail(ss))

\* A rule is the tuple of the (attribute, value) pairs of a path, then the
\* label of its leaf.
RECURSIVE _rules(_, _, _)
_rules(n, parent, previous) ==
    LET path == IF parent # None
                THEN Append(previous, <<nodes[parent].label, nodes[n].parent_value>>)
                ELSE previous
    IN  IF nodes[n].leaf THEN <<Append(path, nodes[n].label)>>
        ELSE Flatten([i \in DOMAIN nodes[n].children |->
                        _rules(nodes[n].children[i], n, path)])

-----------------------------------------------------------------------------
(* dtree.py: DTree *)

\* dict(zip(self.attribute_order, attributes))
attrs_dict_of(order, attributes_) ==
    [a \in {order[i] : i \in DOMAIN order \cap DOMAIN attributes_} |->
        attributes_[CHOOSE i \in DOMAIN order \cap DOMAIN attributes_ :
                        /\ order[i] = a
                        /\ \A j \in DOMAIN order \cap DOMAIN attributes_ :
                                order[j] = a => j <= i]]

DecideShortOnly(attributes_) ==
    IF Len(attributes_) < Len(attribute_order)
    THEN Raised("ValueError", NoMatch, 0)
    ELSE _decide(root, attrs_dict_of(attribute_order, attributes_))

decide(attributes_) ==
    IF Len(attributes_) # Len(attribute_order)
    THEN Raised("ValueError", NoMatch, 0)
    ELSE _decide(root, attrs_dict_of(attribute_order, attributes_))

RuleKeyByName(t) == <<Len(t), [i \in 1..(Len(t) - 1) |-> t[i][1]]>>

\* The sort key of a rule t: (len(t), [p[1] for p in t if isinstance(p, tuple)]).
\* The elements of t that are tuples are all but the last, which is the label.
RuleKey(t) == <<Len(t), [i \in 1..(Len(t) - 1) |-> t[i][2]]>>

\* Python's order of two lists of values.
RECURSIVE ListLess(_, _)
ListLess(k, l) ==
    IF l = <<>> THEN FALSE
    ELSE IF k = <<>> THEN TRUE
    ELSE IF Head(k) # Head(l) THEN Head(k) < Head(l)
    ELSE ListLess(Tail(k), Tail(l))

KeyLess(k, l) == k[1] < l[1] \/ (k[1] = l[1] /\ ListLess(k[2], l[2]))

Unsorted(seq) == seq

\* sorted(seq, key=...): stable, ascending.
RECURSIVE sorted(_)
sorted(seq) ==
    IF seq = <<>> THEN <<>>
    ELSE LET front == sorted(SubSeq(seq, 1, Len(seq) - 1))
             last == seq[Len(seq)]
             before == Cardinality({i \in DOMAIN front :
                                        ~KeyLess(RuleKey(last), RuleKey(front[i]))})
         IN  SubSeq(front, 1, before) \o <<last>> \o SubSeq(front, before + 1, Len(front))

rules == sorted(_rules(root, None, <<>>))

depth == _depth(root, 0)

num_leaves ==
    IF nodes[root].leaf THEN Returned(1, 0)
    ELSE LET below == [i \in DOMAIN nodes[root].children |->
                            _num_leaves(nodes[root].children[i])]
             failed == SelectSeq(below, LAMBDA r : r.status # "returned")
         IN  IF failed # <<>> THEN failed[1]
             ELSE Returned(SumSeq([i \in DOMAIN below |-> below[i].value]), 0)

-----------------------------------------------------------------------------
(* The calls *)

\* A value no file has.
Unseen == CHOOSE v \in 1..(Cardinality(Vals) + 1) : v \notin Vals

\* The lists of values handed to decide: one value per independent attribute,
\* over the values of the files and the unseen one, and the lists of values
\* of the files that are one value shorter or longer.
Records ==
    LET n == Len(all_attributes) - 1
    IN  [1..n -> Vals \cup {Unseen}] \cup [1..(n - 1) -> Vals] \cup [1..(n + 1) -> Vals]

\* The last call of a query and what it gave.
Result(op, arg, r, rs) ==
    [op |-> op, arg |-> arg, status |-> r.status, message |-> r.message,
     value |-> r.value, visited |-> r.visited, rules |-> rs]

NoResult == Result("none", <<>>, Returned(None, 0), <<>>)

\* What an earlier, completed create_tree of the same object built, and what
\* the queries gave on it; builds counts the completed calls before this one.
NoPrevious == [builds |-> 0, nodes |-> <<>>, reordered |-> FALSE,
               rules |-> <<>>, depth |-> 0, decide |-> <<>>]

\* The orders in which the sets of self.values may hand out their values.
ValueOrders ==
    LET independent == DOMAIN values \ {dependent}
    IN  {f \in [independent -> UNION {Perms(values[a]) : a \in independent}] :
            \A a \in independent : f[a] \in Perms(values[a])}

Init ==
    /\ data \in Datasets
    /\ attributes = SelectSeq(all_attributes, LAMBDA a : a # dependent)
    /\ values = get_distinct_values(data)
    /\ attribute_order = <<>>
    /\ root = None
    /\ nodes = <<>>
    /\ stack = <<>>
    /\ pc = "constructed"
    /\ valueOrder \in ValueOrders
    /\ keyOrder \in Perms(Classes)
    /\ res = NoResult
    /\ prev = NoPrevious
    /\ entropy_calls = <<>>

\* The outermost call, up to its loop over the values.  remaining is
\* self.attributes itself, and so is attribute_order after line 99.
OutermostCall ==
    LET new == NewNode(None, None, None, attributes)
    IN  IF Propagates(new)
        THEN /\ pc' = "raised"
             /\ UNCHANGED <<attributes, attribute_order, root, nodes, stack>>
        ELSE /\ attributes' = IF new.node.leaf THEN attributes
                              ELSE RemainingAfter(attributes, new.node.label)
             /\ attribute_order' = attributes'
             /\ root' = 1
             /\ nodes' = <<new.node>>
             /\ stack' = IF new.node.leaf THEN <<>>
                         ELSE <<Frame(1, new.node, new.subset, attributes)>>
             /\ pc' = IF new.node.leaf THEN "built" ELSE "building"

\* fa.create_tree() on the object as constructed.
CreateTree ==
    /\ pc = "constructed"
    /\ OutermostCall
    /\ UNCHANGED <<data, values, valueOrder, keyOrder, res, prev, entropy_calls>>

\* One turn of the loop of the innermost call: the recursive call for the
\* next value, up to that call's own loop.
CreateChild ==
    /\ pc = "building"
    /\ stack # <<>>
    /\ stack[Len(stack)].pending # <<>>
    /\ LET top == stack[Len(stack)]
           new == NewNode(top.subset, top.node, Head(top.pending), top.remaining)
           id == Len(nodes) + 1
           rest == [stack EXCEPT ![Len(stack)].pending = Tail(@),
                                 ![Len(stack)].remaining =
                                    IF new.node.leaf THEN @
                                    ELSE RemainingAfter(@, new.node.label)]
       IN  /\ nodes' = Append([nodes EXCEPT ![top.node].children = Append(@, id)],
                              new.node)
           /\ stack' = IF new.node.leaf THEN rest
                       ELSE Append(rest, Frame(id, new.node, new.subset, top.remaining))
    /\ UNCHANGED <<data, attributes, values, attribute_order, root, pc,
                   valueOrder, keyOrder, res, prev, entropy_calls>>

\* The loop of the innermost call is over: the call returns.
Return ==
    /\ pc = "building"
    /\ stack # <<>>
    /\ stack[Len(stack)].pending = <<>>
    /\ stack' = SubSeq(stack, 1, Len(stack) - 1)
    /\ pc' = IF Len(stack) = 1 THEN "built" ELSE "building"
    /\ UNCHANGED <<data, attributes, values, attribute_order, root, nodes,
                   valueOrder, keyOrder, res, prev, entropy_calls>>

Decide(attributes_) ==
    /\ pc = "built"
    /\ res' = Result("decide", attributes_, decide(attributes_), <<>>)
    /\ UNCHANGED <<data, attributes, values, attribute_order, root, nodes, stack,
                   pc, valueOrder, keyOrder, prev, entropy_calls>>

Rules ==
    /\ pc = "built"
    /\ res' = Result("rules", <<>>, Returned(None, 0), rules)
    /\ UNCHANGED <<data, attributes, values, attribute_order, root, nodes, stack,
                   pc, valueOrder, keyOrder, prev, entropy_calls>>

Depth ==
    /\ pc = "built"
    /\ res' = Result("depth", <<>>, Returned(depth, 0), <<>>)
    /\ UNCHANGED <<data, attributes, values, attribute_order, root, nodes, stack,
                   pc, valueOrder, keyOrder, prev, entropy_calls>>

NumLeaves ==
    /\ pc = "built"
    /\ res' = Result("num_leaves", <<>>, num_leaves, <<>>)
    /\ UNCHANGED <<data, attributes, values, attribute_order, root, nodes, stack,
                   pc, valueOrder, keyOrder, prev, entropy_calls>>

\* A completed create_tree is over: what it built and what the queries give
\* on it is kept.
Remember ==
    /\ pc = "built"
    /\ prev = NoPrevious
    /\ prev' = [builds |-> 1, nodes |-> nodes, reordered |-> FALSE,
                rules |-> rules, depth |-> depth,
                decide |-> [rec \in Records |-> decide(rec)]]
    /\ UNCHANGED <<data, attributes, values, attribute_order, root, nodes, stack, pc,
                   valueOrder, keyOrder, res, entropy_calls>>

\* fa.create_tree() a second time on the same object: the new root replaces
\* the tree of the first call.
CreateTreeAgain ==
    /\ pc = "built"
    /\ prev.builds = 1
    /\ prev' = [prev EXCEPT !.builds = 2]
    /\ OutermostCall
    /\ UNCHANGED <<data, values, valueOrder, keyOrder, res, entropy_calls>>

\* In the second call the loop of a node, before its first turn, enumerates
\* the values of the set in another order than in the first call.
Reorder(order) ==
    /\ pc = "building"
    /\ prev.builds = 2
    /\ nodes[stack[Len(stack)].node].children = <<>>
    /\ Len(order) = Len(stack[Len(stack)].pending)
    /\ Range(order) = Range(stack[Len(stack)].pending)
    /\ order # stack[Len(stack)].pending
    /\ stack' = [stack EXCEPT ![Len(stack)].pending = order]
    /\ prev' = [prev EXCEPT !.reordered = TRUE]
    /\ UNCHANGED <<data, attributes, values, attribute_order, root, nodes, pc,
                   valueOrder, keyOrder, res, entropy_calls>>

Next ==
    \/ CreateTree
    \/ CreateChild
    \/ Return
    \/ \E attributes_ \in Records : Decide(attributes_)
    \/ Rules
    \/ Depth
    \/ NumLeaves

Spec == Init /\ [][Next]_vars

NextBuild ==
    \/ CreateTree
    \/ CreateChild
    \/ Return

\* One call of create_tree, run as the interpreter runs it: a call that
\* can take a step takes it.
SpecBuild == Init /\ [][NextBuild]_vars /\ WF_vars(NextBuild)

NextRebuild ==
    \/ CreateTree
    \/ CreateChild
    \/ Return
    \/ Remember
    \/ CreateTreeAgain
    \/ \E S \in SUBSET Vals : \E order \in Perms(S) : Reorder(order)

\* create_tree called twice on one object.
SpecRebuild == Init /\ [][NextRebuild]_vars

-----------------------------------------------------------------------------
(* id3.py: ID3.  Its parse_csv, get_distinct_values, filter_subset,
   value_counts and attr_counts are those of DTree, so an ID3 object as
   constructed has the data, attributes and values of Init. *)

ID3AllValues(attr) ==
    CHOOSE s \in Perms(UNION {values[a] : a \in DOMAIN values}) : TRUE

\* for value in self.values[attr]
ID3Values(attr) == valueOrder[attr]

\* What a call entropy(subset, attr, value, base) is handed.
EntropyCall(subset, attr, value, base) ==
    [subset |-> subset, attr |-> attr, value |-> value, base |-> base]

\* The calls of entropy that information_gain(subset, attr) makes, in order:
\* the one of get_base_entropy, then one per value of self.values[attr],
\* whatever counts[value] is.
ID3_information_gain(subset, attr) ==
    <<EntropyCall(subset, dependent, None, TRUE)>>
        \o [i \in DOMAIN ID3Values(attr) |->
                EntropyCall(subset, attr, ID3Values(attr)[i], FALSE)]

\* ID3.create_tree() on the object as constructed.  On a file with no rows
\* attr_counts(None, ...) raises.  On a file with rows every branch ends in
\* dtree.DTree(label, leaf=..., parent_value=..., properties=...), and
\* DTree.__init__ takes the training file alone: the call is a TypeError, so
\* create_tree raises at its first node, lines 97-119 are never reached and
\* self.dtree stays None.  Entropy is called before that only in the third
\* branch, by the information_gain of each remaining attribute; its floats
\* go to max_attr, which nothing reads once the constructor has raised.
ID3_create_tree ==
    /\ pc = "constructed"
    /\ LET counts == attr_counts(data, dependent)
       IN  entropy_calls' =
               IF DOMAIN counts = {} THEN <<>>
               ELSE IF IsPure(counts) THEN <<>>
               ELSE IF attributes = <<>> THEN <<>>
               ELSE Flatten([i \in DOMAIN attributes |->
                                ID3_information_gain(data, attributes[i])])
    /\ pc' = "raised"
    /\ UNCHANGED <<data, attributes, values, attribute_order, root, nodes, stack,
                   valueOrder, keyOrder, res, prev>>

NextID3 == ID3_create_tree

\* One call of ID3.create_tree.
SpecID3 == Init /\ [][NextID3]_vars

-----------------------------------------------------------------------------
(* What the tree is, read off the nodes *)

Built == pc = "built"

ParentOf(n) == CHOOSE p \in DOMAIN nodes : n \in Range(nodes[p].children)

\* The (attribute, value) pairs from the root down to node n.
RECURSIVE PathTo(_)
PathTo(n) ==
    IF n = root THEN <<>>
    ELSE Append(PathTo(ParentOf(n)), <<nodes[ParentOf(n)].label, nodes[n].parent_value>>)

\* The rows of the file with the values of a path.
RowsOn(path) ==
    SelectSeq(data, LAMBDA r : \A i \in DOMAIN path : r[path[i][1]] = path[i][2])

\* The attributes no pair of the path names, in the order of the file.
Unused(path) ==
    SelectSeq(attributes, LAMBDA a : \A i \in DOMAIN path : path[i][1] # a)

ClassCount(S, c) == Cardinality({i \in DOMAIN S : S[i][dependent] = c})

ClassesOf(S) == {S[i][dependent] : i \in DOMAIN S}

\* The dependent values of maximum count in S.
Majority(S) ==
    {c \in ClassesOf(S) : \A d \in ClassesOf(S) : ClassCount(S, d) <= ClassCount(S, c)}

Estimated(n) ==
    /\ "estimated" \in DOMAIN nodes[n].properties
    /\ nodes[n].properties.estimated = TRUE

Leaves == {n \in DOMAIN nodes : nodes[n].leaf}

Internal == {n \in DOMAIN nodes : ~nodes[n].leaf}

\* The position of an attribute in the list decide is given.
Pos(a) == CHOOSE i \in DOMAIN attribute_order : attribute_order[i] = a

\* The children of n a record's value leads to.
Kids(n, rec) ==
    {c \in Range(nodes[n].children) : nodes[c].parent_value = rec[Pos(nodes[n].label)]}

\* The leaf a record of the right length leads to, None when some node on
\* its way has no child for its value.
RECURSIVE LeafReached(_, _)
LeafReached(n, rec) ==
    IF nodes[n].leaf THEN n
    ELSE IF Kids(n, rec) = {} THEN None
    ELSE LeafReached(CHOOSE c \in Kids(n, rec) : TRUE, rec)

\* A record has the values of the pairs of a rule.
Agrees(rec, rule) ==
    /\ Len(rec) = Len(attribute_order)
    /\ \A i \in 1..(Len(rule) - 1) : rec[Pos(rule[i][1])] = rule[i][2]

\* The list test_file hands to decide for a row.
Formatted(row) == [i \in DOMAIN attributes |-> row[attributes[i]]]

-----------------------------------------------------------------------------
(* The claims *)

\* C1: once create_tree has completed, a leaf has no children, and an
\* internal node labelled a has exactly one child per value of values[a],
\* the parent_value of its children being pairwise distinct.
C1_NodeInvariant ==
    Built =>
        \A n \in DOMAIN nodes :
            IF nodes[n].leaf THEN nodes[n].children = <<>>
            ELSE LET kids == nodes[n].children
                 IN  /\ Len(kids) = Cardinality(values[nodes[n].label])
                     /\ {nodes[kids[i]].parent_value : i \in DOMAIN kids}
                            = values[nodes[n].label]
                     /\ \A i, j \in DOMAIN kids :
                            nodes[kids[i]].parent_value = nodes[kids[j]].parent_value
                                => i = j

\* A built tree with an internal node under the root one of whose values has
\* no row in the node's subset.
C1_Witness ==
    /\ Built
    /\ \E n \in Internal :
        /\ n # root
        /\ Len(nodes[n].children) >= 2
        /\ \E v \in values[nodes[n].label] :
              filter_subset(RowsOn(PathTo(n)), nodes[n].label, v) = <<>>

\* The number of leaves of the tree.
LeafTotal == Cardinality(Leaves)

\* C2: num_leaves returns the number of leaves of the tree, which is the
\* number of rules, whatever the depth of the tree.
C2_LeafCount ==
    res.op = "num_leaves" =>
        /\ res.status = "returned"
        /\ res.value = LeafTotal
        /\ res.value = Len(rules)

\* C3: decide on a record that has the values of the path of a rule returns
\* the last element of the rule.
C3_RuleDecides ==
    res.op = "decide" =>
        \A k \in DOMAIN rules :
            Agrees(res.arg, rules[k]) =>
                /\ res.status = "returned"
                /\ res.value = rules[k][Len(rules[k])]

\* decide has returned on a record of a rule with two pairs, in a tree with
\* rules of both lengths.
C3_Witness ==
    /\ res.op = "decide"
    /\ res.status = "returned"
    /\ \E k \in DOMAIN rules : Len(rules[k]) = 3 /\ Agrees(res.arg, rules[k])
    /\ \E k \in DOMAIN rules : Len(rules[k]) = 2

\* C4: decide on a row of the training data that ends at a leaf not marked
\* estimated returns the dependent value of the row.
C4_RoundTrip ==
    res.op = "decide" =>
        \A i \in DOMAIN data :
            (/\ res.arg = Formatted(data[i])
             /\ LeafReached(root, res.arg) # None
             /\ ~Estimated(LeafReached(root, res.arg)))
                => /\ res.status = "returned"
                   /\ res.value = data[i][dependent]

\* decide has returned on a training row at a leaf not marked estimated under
\* the root, in a tree that has estimated leaves too.
C4_Witness ==
    /\ res.op = "decide"
    /\ \E i \in DOMAIN data : res.arg = Formatted(data[i])
    /\ LeafReached(root, res.arg) \notin {None, root}
    /\ ~Estimated(LeafReached(root, res.arg))
    /\ \E n \in Leaves : Estimated(n)
    /\ Cardinality(ClassesOf(data)) = 2

\* C5: the child of an internal node for a value no row of the node's subset
\* has is a leaf marked estimated, labelled with a dependent value of
\* maximum count in the node's subset.
C5_EmptyBranch ==
    \A n \in Internal :
        \A z \in values[nodes[n].label] :
            filter_subset(RowsOn(PathTo(n)), nodes[n].label, z) = <<>>
                => /\ Built => \E c \in Range(nodes[n].children) : nodes[c].parent_value = z
                   /\ \A c \in Range(nodes[n].children) :
                        nodes[c].parent_value = z
                            => /\ nodes[c].leaf
                               /\ Estimated(c)
                               /\ nodes[c].label \in Majority(RowsOn(PathTo(n)))

\* A child for a value without rows, under a node whose subset has one
\* dependent value more often than another.
C5_Witness ==
    \E n \in Internal :
        \E c \in Range(nodes[n].children) :
            /\ filter_subset(RowsOn(PathTo(n)), nodes[n].label, nodes[c].parent_value) = <<>>
            /\ Majority(RowsOn(PathTo(n))) # ClassesOf(RowsOn(PathTo(n)))

\* Some node on the way of the record has no child for the record's value.
NoChild(rec) == Len(rec) = Len(attribute_order) /\ LeafReached(root, rec) = None

\* C6: decide raises the error of an invalid value, and returns no label,
\* when the record's value at an internal node on its way is the
\* parent_value of no child.
C6_UnseenValue ==
    (res.op = "decide" /\ NoChild(res.arg)) =>
        /\ res.status = "ValueError"
        /\ res.message = InvalidProperty
        /\ res.value = None

\* decide has raised at a node under the root.
C6_Witness ==
    /\ res.op = "decide"
    /\ NoChild(res.arg)
    /\ res.status = "ValueError"
    /\ res.visited = 2

\* C7: decide raises the error of a mismatch, before it visits any node and
\* without a label, when the list of values has not the length of
\* attribute_order.
C7_LengthMismatch ==
    (res.op = "decide" /\ Len(res.arg) # Len(attribute_order)) =>
        /\ res.status = "ValueError"
        /\ res.message = NoMatch
        /\ res.value = None
        /\ res.visited = 0

\* decide has raised on a list that is too long, in a tree with internal
\* nodes.
C7_Witness ==
    /\ res.op = "decide"
    /\ Len(res.arg) > Len(attribute_order)
    /\ res.status = "ValueError"
    /\ Internal # {}

OneClass ==
    /\ data # <<>>
    /\ \A i, j \in DOMAIN data : data[i][dependent] = data[j][dependent]

\* C9: on a file whose rows all have the same dependent value, create_tree
\* builds one node, a leaf with that value as label; the depth is 0 and the
\* number of leaves 1.
C9_SingleLeaf ==
    (Built /\ OneClass) =>
        /\ Len(nodes) = 1
        /\ root = 1
        /\ nodes[root].leaf
        /\ nodes[root].children = <<>>
        /\ nodes[root].label = data[1][dependent]
        /\ res.op = "depth" => res.value = 0
        /\ res.op = "num_leaves" => (res.status = "returned" /\ res.value = 1)

\* The depth was asked of the tree of a file of rows that differ in their
\* attributes and agree in their dependent value.
C9_Witness ==
    /\ Built
    /\ OneClass
    /\ \E i, j \in DOMAIN data : Formatted(data[i]) # Formatted(data[j])
    /\ res.op = "depth"

\* C10: a node whose path has used every attribute, and whose subset has
\* rows of two dependent values or more, is a leaf marked estimated,
\* labelled with a dependent value of maximum count in its subset.
C10_Exhausted ==
    \A n \in DOMAIN nodes :
        (/\ Unused(PathTo(n)) = <<>>
         /\ Cardinality(ClassesOf(RowsOn(PathTo(n)))) >= 2)
            => /\ nodes[n].leaf
               /\ nodes[n].children = <<>>
               /\ Estimated(n)
               /\ nodes[n].label \in Majority(RowsOn(PathTo(n)))

\* Such a node whose subset has one dependent value more often than another.
C10_Witness ==
    \E n \in DOMAIN nodes :
        /\ Unused(PathTo(n)) = <<>>
        /\ Cardinality(ClassesOf(RowsOn(PathTo(n)))) >= 2
        /\ Majority(RowsOn(PathTo(n))) # ClassesOf(RowsOn(PathTo(n)))

\* The values along a rule, the label of its leaf left out.
ValuesAlong(rule) == [i \in 1..(Len(rule) - 1) |-> rule[i][2]]

\* Of two lists of one length, s has the smaller element where they first
\* differ.
Before(s, t) ==
    \E i \in DOMAIN s : s[i] < t[i] /\ \A j \in 1..(i - 1) : s[j] = t[j]

\* C11: rules() returns the path of every leaf, from the root down and ended
\* by the label of the leaf, exactly once; a shorter rule comes before a
\* longer one, and of two rules of one length the one whose values along the
\* path are lexicographically smaller comes first, whatever the attributes
\* and the labels of the leaves are.
C11_RulesSorted ==
    res.op = "rules" =>
        /\ res.status = "returned"
        /\ Len(res.rules) = Cardinality(Leaves)
        /\ \A n \in Leaves :
              Cardinality({k \in DOMAIN res.rules :
                              res.rules[k] = Append(PathTo(n), nodes[n].label)}) = 1
        /\ \A k \in 1..(Len(res.rules) - 1) :
              LET r == res.rules[k]
                  s == res.rules[k + 1]
              IN  \/ Len(r) < Len(s)
                  \/ Len(r) = Len(s) /\ Before(ValuesAlong(r), ValuesAlong(s))

\* rules() has returned on a tree with rules of both lengths whose leaves do
\* not come in the order of the rules when the tree is walked.
C11_Witness ==
    /\ res.op = "rules"
    /\ \E k \in DOMAIN res.rules : Len(res.rules[k]) = 2
    /\ \E k \in DOMAIN res.rules : Len(res.rules[k]) = 3
    /\ _rules(root, None, <<>>) # res.rules

\* A second create_tree on the object has completed.
BuiltAgain == Built /\ prev.builds = 2

\* C12: a second create_tree on the same object, its sets and dicts
\* enumerating as in the first, builds the tree the first built: the same
\* nodes with the same labels, leaf flags, parent_value, properties and
\* children, in the same order.
C12_Idempotent ==
    (BuiltAgain /\ ~prev.reordered) =>
        /\ root = 1
        /\ nodes = prev.nodes

\* A second create_tree has completed on a tree with an internal node under
\* the root and with a leaf labelled by a choice among equally common values.
C12_Witness ==
    /\ BuiltAgain
    /\ ~prev.reordered
    /\ \E n \in Internal : n # root
    /\ \E n \in Leaves : Estimated(n) /\ Cardinality(Majority(RowsOn(PathTo(n)))) = 2

\* C18: whatever the order in which the loop of each node of a second
\* create_tree enumerates the values, so whatever the order in which the
\* children are built and attached, decide gives on every record what it
\* gave on the first tree, rules() returns the same sequence and depth is
\* the same.
C18_OrderUnobservable ==
    BuiltAgain =>
        /\ rules = prev.rules
        /\ depth = prev.depth
        /\ \A rec \in Records :
              /\ decide(rec).status = prev.decide[rec].status
              /\ decide(rec).message = prev.decide[rec].message
              /\ decide(rec).value = prev.decide[rec].value

\* A second create_tree has completed on a tree of depth 2 whose nodes have
\* their children in another order than in the first tree, the loops of two
\* nodes having enumerated in different orders.
C18_Witness ==
    /\ BuiltAgain
    /\ prev.reordered
    /\ nodes # prev.nodes
    /\ depth = 2
    /\ Len(rules) >= 3

\* The independent attributes in the order of the columns of the file.
ColumnOrder == SelectSeq(all_attributes, LAMBDA a : a # dependent)

\* C13: no step of create_tree and no query changes the rows, the list of
\* independent attributes or the domains; the outermost call of create_tree
\* that builds a root sets attribute_order to the independent attributes in
\* column order, and no later step (a recursive call, decide, rules, depth,
\* num_leaves) changes it.
C13_DatasetUnchanged ==
    [][/\ data' = data
       /\ attributes' = attributes
       /\ values' = values
       /\ (pc = "constructed" /\ pc' # "raised") => attribute_order' = ColumnOrder
       /\ pc # "constructed" => attribute_order' = attribute_order]_vars

\* rules() has returned on a tree of depth 2, built by recursive calls that
\* each removed an attribute from their list, with the lists as they were.
C13_Witness ==
    /\ res.op = "rules"
    /\ depth = 2
    /\ data # <<>>
    /\ attributes = ColumnOrder
    /\ attribute_order = ColumnOrder

\* Every node of the tree is a leaf without children or has one child per
\* value of the domain of its label.
Complete ==
    \A n \in DOMAIN nodes :
        IF nodes[n].leaf THEN nodes[n].children = <<>>
        ELSE /\ {nodes[c].parent_value : c \in Range(nodes[n].children)}
                    = values[nodes[n].label]
             /\ Len(nodes[n].children) = Cardinality(values[nodes[n].label])

\* C14: a call of create_tree that has raised has left no root and no node;
\* on a file with no rows create_tree never gets beyond raising; and once
\* the call is over, a root that is set is the root of a tree that
\* satisfies the node invariant.
C14_NoPartialTree ==
    /\ pc = "raised" => (root = None /\ nodes = <<>> /\ stack = <<>>)
    /\ data = <<>> => (pc \in {"constructed", "raised"} /\ root = None)
    /\ (pc # "building" /\ root # None) => (pc = "built" /\ stack = <<>> /\ Complete)

\* create_tree has raised on the file with no rows.
C14_Witness ==
    /\ pc = "raised"
    /\ data = <<>>
    /\ \A a \in DOMAIN values : values[a] = {}

\* The number of distinct values of attribute a in the rows S.
DistinctIn(S, a) == Cardinality({S[i][a] : i \in DOMAIN S})

\* No attribute of R has a positive gain over S.
NoPositiveGain(S, R) ==
    \A i \in DOMAIN R : ~FloatLess(Float(0), information_gain(S, R[i]))

\* C15: an internal node none of whose unused attributes has a positive gain
\* over its subset is labelled with an unused attribute of the most distinct
\* values in the subset, and its properties record that number as
\* max_groups.
C15_MostGroups ==
    \A n \in Internal :
        LET S == RowsOn(PathTo(n))
            R == Unused(PathTo(n))
            a == nodes[n].label
        IN  NoPositiveGain(S, R) =>
                /\ \A i \in DOMAIN R : DistinctIn(S, R[i]) <= DistinctIn(S, a)
                /\ "max_groups" \in DOMAIN nodes[n].properties
                /\ nodes[n].properties.max_groups = DistinctIn(S, a)

\* A record of the right length each of whose values is in the domain of the
\* attribute at its position.
InDomain(rec) ==
    /\ Len(rec) = Len(attributes)
    /\ \A i \in DOMAIN rec : rec[i] \in values[attributes[i]]

\* C19: on a tree built from a file with rows, decide on a record of the
\* right length whose values all lie in the domains of their attributes
\* raises nothing and returns a value of the dependent attribute that occurs
\* in the file.
C19_DecideTotal ==
    (res.op = "decide" /\ data # <<>> /\ InDomain(res.arg)) =>
        /\ res.status = "returned"
        /\ \E i \in DOMAIN data : res.value = data[i][dependent]

\* decide has returned on a record that is no row of the file, each of its
\* values being in the domain of its attribute, at a leaf under an internal
\* node under the root.
C19_Witness ==
    /\ res.op = "decide"
    /\ InDomain(res.arg)
    /\ \A i \in DOMAIN data : res.arg # Formatted(data[i])
    /\ res.status = "returned"
    /\ res.visited = 3

\* The labels of the internal nodes from the root down to node n, n
\* included when it is internal.
LabelsTo(n) ==
    LET above == [i \in DOMAIN PathTo(n) |-> PathTo(n)[i][1]]
    IN  IF nodes[n].leaf THEN above ELSE Append(above, nodes[n].label)

\* The remaining list of each call in its loop is strictly shorter than the
\* one of the call that made it, the outermost one starting from the list
\* of independent attributes; no attribute labels two internal nodes of a
\* path; no node is deeper than there are independent attributes.
ShorterLists ==
    /\ \A k \in DOMAIN stack :
          Len(stack[k].remaining)
              < (IF k = 1 THEN Len(attributes) ELSE Len(stack[k - 1].remaining))
    /\ \A n \in DOMAIN nodes :
          /\ \A i, j \in DOMAIN LabelsTo(n) :
                LabelsTo(n)[i] = LabelsTo(n)[j] => i = j
          /\ Len(PathTo(n)) <= Len(attributes)
    /\ Built => depth <= Len(attributes)

\* The most steps a call of create_tree whose remaining list has r
\* attributes takes: one for a leaf; else the step that makes the node, the
\* calls of its loop, one per value, each with a list of r - 1 attributes,
\* and its return.
RECURSIVE StepsOf(_)
StepsOf(r) == IF r = 0 THEN 1 ELSE 2 + Cardinality(Vals) * StepsOf(r - 1)

\* The most steps the run of create_tree still takes: for each call in its
\* loop, the calls it has yet to make and its return.
Variant ==
    IF pc = "constructed" THEN StepsOf(Len(attributes)) + 1
    ELSE IF pc = "building"
    THEN SumSeq([k \in DOMAIN stack |->
                    Len(stack[k].pending) * StepsOf(Len(stack[k].remaining)) + 1])
    ELSE 0

\* C17: create_tree ends, with a tree or with an error, on every file: a
\* run that has not ended can take a step, and every step lowers a bound
\* on the steps left, because each recursive call gets a remaining list
\* strictly shorter than the one of its caller; so no attribute labels two
\* internal nodes of one path, and the depth of the tree is at most the
\* number of independent attributes.
C17_Terminates ==
    /\ [][Variant' < Variant]_vars
    /\ [](/\ ShorterLists
          /\ Variant >= 0
          /\ pc = "building" => stack # <<>>
          /\ Variant = 0 <=> pc \in {"built", "raised"})

\* create_tree has ended with a tree as deep as there are independent
\* attributes.
C17_Witness ==
    /\ Built
    /\ attributes # <<>>
    /\ depth = Len(attributes)

====
